---- MODULE Spec2Model ----
(***************************************************************************)
(* Model of apollo-router/src/query_planner/fetch.rs: one execution of a   *)
(* FetchNode (fetch_node or connector_execution): Variables::new, the      *)
(* downstream call, failure normalisation and response_at_path.            *)
(***************************************************************************)
EXTENDS FiniteSets, Integers, Sequences, TLC

(***************************************************************************)
(* Bounds of the explored inputs.                                          *)
(***************************************************************************)
\* longest list in the response snapshot
MaxList == 3
\* most errors in one downstream response
MaxErrors == 2
\* longest `_entities` array in one downstream response
MaxEntities == 2

(***************************************************************************)
(* json_ext::Value, Option and json_ext::PathElement.                      *)
(***************************************************************************)
Null == [t |-> "null"]

Str(s) == [t |-> "str", v |-> s]

Obj(f) == [t |-> "obj", v |-> f]

Arr(s) == [t |-> "arr", v |-> s]

EmptyMap == [k \in {} |-> Null]

EmptyObject == Obj(EmptyMap)

IsNull(v) == v.t = "null"

IsObject(v) == v.t = "obj"

IsArray(v) == v.t = "arr"

None == [has |-> FALSE]

Some(x) == [has |-> TRUE, val |-> x]

Key(k) == [e |-> "key", k |-> k]

Index(i) == [e |-> "idx", i |-> i]

Flatten == [e |-> "flat"]

\* Map::insert: set key k of the map m to v
MapInsert(m, k, v) == [x \in (DOMAIN m) \cup {k} |-> IF x = k THEN v ELSE m[x]]

\* Map::remove: the map m without key k
MapRemove(m, k) == [x \in (DOMAIN m) \ {k} |-> m[x]]

\* Path::starts_with
StartsWith(path, prefix) ==
    /\ Len(path) >= Len(prefix)
    /\ SubSeq(path, 1, Len(prefix)) = prefix

RECURSIVE IterateArray(_, _, _, _)
RECURSIVE IteratePath(_, _, _)
\* json_ext iterate_path: the <<path, value>> pairs of the positions of
\* data matched by path, in visiting order; a flatten marker visits every
\* element of the array found there
IteratePath(parent, path, data) ==
    IF path = <<>> THEN << <<parent, data>> >>
    ELSE LET h == Head(path) IN
         CASE h.e = "flat" ->
                IF IsArray(data) THEN IterateArray(parent, Tail(path), data.v, 1)
                ELSE <<>>
           [] h.e = "idx" ->
                IF IsArray(data) /\ h.i + 1 <= Len(data.v)
                THEN IteratePath(Append(parent, h), Tail(path), data.v[h.i + 1])
                ELSE <<>>
           [] h.e = "key" ->
                IF IsObject(data) /\ h.k \in DOMAIN data.v
                THEN IteratePath(Append(parent, h), Tail(path), data.v[h.k])
                ELSE IF IsArray(data) THEN IterateArray(parent, path, data.v, 1)
                ELSE <<>>

IterateArray(parent, path, array, i) ==
    IF i > Len(array) THEN <<>>
    ELSE IteratePath(Append(parent, Index(i - 1)), path, array[i])
         \o IterateArray(parent, path, array, i + 1)

\* ValueExt::select_values_and_paths
SelectValuesAndPaths(data, path) == IteratePath(<<>>, path, data)

\* ValueExt::get_path: the value at path (the last position matched)
GetPath(data, path) ==
    LET m == IteratePath(<<>>, path, data) IN
    IF m = <<>> THEN None ELSE Some(m[Len(m)][2])

\* selection::execute_selection_set for a selection set of plain fields
ExecuteSelectionSet(value, requires) ==
    IF ~IsObject(value) THEN Null
    ELSE Obj([k \in {requires[i] : i \in 1..Len(requires)} \cap DOMAIN value.v
                 |-> value.v[k]])

\* rewrites::DataRewrite::maybe_apply on a top-level key of an object
ApplyRewrite(value, rw) ==
    IF ~IsObject(value) \/ rw.key \notin DOMAIN value.v THEN value
    ELSE IF rw.kind = "ValueSetter"
         THEN Obj(MapInsert(value.v, rw.key, rw.to))
         ELSE Obj(MapInsert(MapRemove(value.v, rw.key), rw.to, value.v[rw.key]))

RECURSIVE ApplyRewriteList(_, _)
ApplyRewriteList(value, rws) ==
    IF rws = <<>> THEN value
    ELSE ApplyRewriteList(ApplyRewrite(value, Head(rws)), Tail(rws))

\* rewrites::apply_rewrites
ApplyRewrites(value, maybe_rewrites) ==
    IF maybe_rewrites.has THEN ApplyRewriteList(value, maybe_rewrites.val)
    ELSE value

\* position of x in the sequence s, 0 when absent (IndexSet::get_index_of)
GetIndexOf(s, x) ==
    IF \E i \in 1..Len(s) : s[i] = x
    THEN CHOOSE i \in 1..Len(s) : s[i] = x
    ELSE 0

(***************************************************************************)
(* Variables::new                                                          *)
(***************************************************************************)
\* VisitPosition without the lookup of the values seen before
VisitPositionNoDedup(acc, match, requires, input_rewrites) ==
    LET selected == ExecuteSelectionSet(match[2], requires) IN
    IF IsObject(selected) /\ DOMAIN selected.v # {}
    THEN [values |-> Append(acc.values, ApplyRewrites(selected, input_rewrites)),
          inverted_paths |-> Append(acc.inverted_paths, <<match[1]>>)]
    ELSE acc

\* VisitPosition without the test for an empty selection result
VisitPositionKeepEmpty(acc, match, requires, input_rewrites) ==
    LET value == ApplyRewrites(ExecuteSelectionSet(match[2], requires), input_rewrites)
        index == GetIndexOf(acc.values, value)
    IN  IF index > 0
        THEN [acc EXCEPT !.inverted_paths[index] = Append(@, match[1])]
        ELSE [values |-> Append(acc.values, value),
              inverted_paths |-> Append(acc.inverted_paths, <<match[1]>>)]

\* VisitPosition that records a value seen before at its first path only
VisitPositionDropRepeat(acc, match, requires, input_rewrites) ==
    LET selected == ExecuteSelectionSet(match[2], requires) IN
    IF IsObject(selected) /\ DOMAIN selected.v # {}
    THEN LET value == ApplyRewrites(selected, input_rewrites)
             index == GetIndexOf(acc.values, value)
         IN  IF index > 0
             THEN acc
             ELSE [values |-> Append(acc.values, value),
                   inverted_paths |-> Append(acc.inverted_paths, <<match[1]>>)]
    ELSE acc

\* the closure passed to select_values_and_paths: one matched position
\* <<path, value>> folded into acc = [values, inverted_paths]
VisitPosition(acc, match, requires, input_rewrites) ==
    LET selected == ExecuteSelectionSet(match[2], requires) IN
    IF IsObject(selected) /\ DOMAIN selected.v # {}
    THEN LET value == ApplyRewrites(selected, input_rewrites)
             index == GetIndexOf(acc.values, value)
         IN  IF index > 0
             THEN [acc EXCEPT !.inverted_paths[index] = Append(@, match[1])]
             ELSE [values |-> Append(acc.values, value),
                   inverted_paths |-> Append(acc.inverted_paths, <<match[1]>>)]
    ELSE acc

RECURSIVE VisitPositions(_, _, _, _)
\* the enumeration after the first n matched positions
VisitPositions(matches, n, requires, input_rewrites) ==
    IF n = 0 THEN [values |-> <<>>, inverted_paths |-> <<>>]
    ELSE VisitPosition(VisitPositions(matches, n - 1, requires, input_rewrites),
                       matches[n], requires, input_rewrites)

\* the ambient variables named in variable_usages that the request carries
AmbientVariables(variable_usages, body_variables) ==
    [k \in {variable_usages[i] : i \in 1..Len(variable_usages)}
              \cap DOMAIN body_variables |-> body_variables[k]]

\* Variables::new without the guard on the value at the current path
VariablesNewNoGuard(requires, variable_usages, snapshot, current_dir, body, input_rewrites) ==
    IF requires # <<>>
    THEN LET matches == SelectValuesAndPaths(snapshot, current_dir)
             acc == VisitPositions(matches, Len(matches), requires, input_rewrites)
         IN  IF acc.values = <<>> THEN None
             ELSE Some([variables |->
                            MapInsert(AmbientVariables(variable_usages, body),
                                      "representations", Arr(acc.values)),
                        inverted_paths |-> acc.inverted_paths])
    ELSE Some([variables |-> AmbientVariables(variable_usages, body),
               inverted_paths |-> <<>>])

VariablesNew(requires, variable_usages, snapshot, current_dir, body, input_rewrites) ==
    IF requires # <<>>
    THEN LET matches == SelectValuesAndPaths(snapshot, current_dir)
             acc == VisitPositions(matches, Len(matches), requires, input_rewrites)
         IN  IF acc.values = <<>> THEN None
             ELSE Some([variables |->
                            MapInsert(AmbientVariables(variable_usages, body),
                                      "representations", Arr(acc.values)),
                        inverted_paths |-> acc.inverted_paths])
    ELSE IF /\ current_dir # <<>>
            /\ LET found == GetPath(snapshot, current_dir) IN
               IF found.has THEN IsNull(found.val) ELSE TRUE
         THEN None
         ELSE Some([variables |-> AmbientVariables(variable_usages, body),
                    inverted_paths |-> <<>>])

(***************************************************************************)
(* json_ext value construction used by the stitcher.                       *)
(***************************************************************************)
\* the array a grown with nulls to hold index i (0-based)
PadTo(a, i) == [j \in 1..(IF Len(a) > i THEN Len(a) ELSE i + 1) |->
                    IF j <= Len(a) THEN a[j] ELSE Null]

RECURSIVE InsertAt(_, _, _)
\* ValueExt::insert: value put at path inside node, creating the objects
\* and arrays on the way; a node of another kind on the way is left as is
InsertAt(node, path, value) ==
    IF path = <<>> THEN value
    ELSE LET h == Head(path) IN
         CASE h.e = "flat" -> InsertAt(node, Tail(path), value)
           [] h.e = "idx" ->
                IF IsArray(node) \/ IsNull(node)
                THEN LET a == PadTo(IF IsArray(node) THEN node.v ELSE <<>>, h.i)
                     IN  Arr([a EXCEPT ![h.i + 1] = InsertAt(@, Tail(path), value)])
                ELSE node
           [] h.e = "key" ->
                IF IsObject(node) \/ IsNull(node)
                THEN LET m == IF IsObject(node) THEN node.v ELSE EmptyMap
                         old == IF h.k \in DOMAIN m THEN m[h.k] ELSE Null
                     IN  Obj(MapInsert(m, h.k, InsertAt(old, Tail(path), value)))
                ELSE node

\* ValueExt::from_path: a value tree holding value at path
FromPath(path, value) == InsertAt(Null, path, value)

(***************************************************************************)
(* graphql::Error, graphql::Response and FetchError.                       *)
(***************************************************************************)
Error(message, path, locations, extensions) ==
    [message |-> message, path |-> path, locations |-> locations,
     extensions |-> extensions]

\* graphql::Response::is_primary
IsPrimary(response) == ~response.path.has

\* Display of a FetchError or of another boxed error, as a list of words
ToText(failure) ==
    CASE failure.kind = "SubrequestHttpError" ->
            <<"HTTP fetch failed from", failure.service>> \o failure.reason
      [] failure.kind = "SubrequestMalformedResponse" ->
            <<"service", failure.service, "response was malformed:">> \o failure.reason
      [] failure.kind = "SubrequestUnexpectedPatchResponse" ->
            <<"subgraph response contains invalid data for", failure.service>>
      [] OTHER -> failure.reason

\* FetchError::to_graphql_error
ToGraphqlError(fetch_error, path) ==
    Error(ToText(fetch_error), path, <<>>,
          [code |-> fetch_error.kind, error |-> fetch_error])

SubrequestHttpError(status_code, service, reason) ==
    [kind |-> "SubrequestHttpError", status_code |-> status_code,
     service |-> service, reason |-> reason]

SubrequestUnexpectedPatchResponse(service) ==
    [kind |-> "SubrequestUnexpectedPatchResponse", service |-> service]

\* NormalizeFailure that wraps every failure, a SubrequestHttpError too
NormalizeFailureWrapAll(failure, service_name) ==
    SubrequestHttpError(None, service_name, ToText(failure))

\* the map_err closure of fetch_node: the failure of the downstream call
\* as a FetchError
NormalizeFailure(failure, service_name) ==
    IF failure.fetch_error
    THEN IF failure.kind = "SubrequestHttpError"
         THEN SubrequestHttpError(failure.status_code, failure.service, failure.reason)
         ELSE SubrequestHttpError(None, service_name, ToText(failure))
    ELSE SubrequestHttpError(None, service_name, ToText(failure))

(***************************************************************************)
(* FetchNode::response_at_path                                             *)
(***************************************************************************)
EntitiesPath == <<Key("_entities")>>

\* the paths recorded for index i (0-based), none when out of range
PathsAt(inverted_paths, i) ==
    IF i + 1 <= Len(inverted_paths) THEN inverted_paths[i + 1] ELSE <<>>

\* RemapError that keeps the locations of the downstream operation
RemapErrorKeepLocations(error, current_dir, inverted_paths) ==
    IF error.path.has
    THEN LET path == error.path.val IN
         IF StartsWith(path, EntitiesPath)
         THEN IF Len(path) >= 2 /\ path[2].e = "idx"
              THEN LET paths == PathsAt(inverted_paths, path[2].i) IN
                   [j \in 1..Len(paths) |->
                       Error(error.message,
                             Some(paths[j] \o SubSeq(path, 3, Len(path))),
                             error.locations, error.extensions)]
              ELSE << Error(error.message, Some(current_dir), <<>>, error.extensions) >>
         ELSE << Error(error.message, Some(current_dir), <<>>, error.extensions) >>
    ELSE << Error(error.message, None, <<>>, error.extensions) >>

\* RemapError that leaves the path of an error outside the entity shape
RemapErrorKeepPath(error, current_dir, inverted_paths) ==
    IF error.path.has
    THEN LET path == error.path.val IN
         IF StartsWith(path, EntitiesPath) /\ Len(path) >= 2 /\ path[2].e = "idx"
         THEN LET paths == PathsAt(inverted_paths, path[2].i) IN
              [j \in 1..Len(paths) |->
                  Error(error.message,
                        Some(paths[j] \o SubSeq(path, 3, Len(path))),
                        <<>>, error.extensions)]
         ELSE << Error(error.message, error.path, <<>>, error.extensions) >>
    ELSE << Error(error.message, None, <<>>, error.extensions) >>

\* entity regime: the errors pushed for one downstream error
RemapError(error, current_dir, inverted_paths) ==
    IF error.path.has
    THEN LET path == error.path.val IN
         IF StartsWith(path, EntitiesPath)
         THEN IF Len(path) >= 2 /\ path[2].e = "idx"
              THEN LET paths == PathsAt(inverted_paths, path[2].i) IN
                   [j \in 1..Len(paths) |->
                       Error(error.message,
                             Some(paths[j] \o SubSeq(path, 3, Len(path))),
                             <<>>, error.extensions)]
              ELSE << Error(error.message, Some(current_dir), <<>>, error.extensions) >>
         ELSE << Error(error.message, Some(current_dir), <<>>, error.extensions) >>
    ELSE << Error(error.message, None, <<>>, error.extensions) >>

RECURSIVE RemapErrors(_, _, _)
RemapErrors(errors, current_dir, inverted_paths) ==
    IF errors = <<>> THEN <<>>
    ELSE RemapError(Head(errors), current_dir, inverted_paths)
         \o RemapErrors(Tail(errors), current_dir, inverted_paths)

RECURSIVE InsertClones(_, _, _, _)
\* the entity cloned into value at paths[j..]
InsertClones(value, paths, j, entity) ==
    IF j > Len(paths) THEN value
    ELSE InsertClones(InsertAt(value, paths[j], entity), paths, j + 1, entity)

RECURSIVE InsertEntitiesFirstOnly(_, _, _, _, _)
\* InsertEntities that places every entity at its first path only
InsertEntitiesFirstOnly(value, array, index, inverted_paths, output_rewrites) ==
    IF index > Len(array) THEN value
    ELSE LET entity == ApplyRewrites(array[index], output_rewrites)
             paths == PathsAt(inverted_paths, index - 1)
             placed == IF paths # <<>> THEN InsertAt(value, paths[1], entity) ELSE value
         IN  InsertEntitiesFirstOnly(placed, array, index + 1, inverted_paths,
                                     output_rewrites)

RECURSIVE InsertEntities(_, _, _, _, _)
\* the loop over the `_entities` array, from element index (1-based) on
InsertEntities(value, array, index, inverted_paths, output_rewrites) ==
    IF index > Len(array) THEN value
    ELSE LET entity == ApplyRewrites(array[index], output_rewrites)
             paths == PathsAt(inverted_paths, index - 1)
             clones == InsertClones(value, paths, 2, entity)
             placed == IF paths # <<>> THEN InsertAt(clones, paths[1], entity)
                       ELSE clones
         IN  InsertEntities(placed, array, index + 1, inverted_paths, output_rewrites)

\* CurrentSlice that keeps the trailing flatten marker
CurrentSliceUntrimmed(current_dir) == current_dir

\* the current path without a trailing flatten marker
CurrentSlice(current_dir) ==
    IF current_dir # <<>> /\ current_dir[Len(current_dir)].e = "flat"
    THEN SubSeq(current_dir, 1, Len(current_dir) - 1)
    ELSE current_dir

\* scalar regime: one downstream error with its path below the current path
PrefixError(error, current_dir) ==
    Error(error.message,
          IF error.path.has THEN Some(CurrentSlice(current_dir) \o error.path.val)
          ELSE None,
          error.locations, error.extensions)

\* ResponseAtPath that reports a missing `_entities` array as an error
ResponseAtPathMissingEntitiesError(requires, output_rewrites, current_dir, inverted_paths, response) ==
    IF requires # <<>>
    THEN LET errors == RemapErrors(response.errors, current_dir, inverted_paths) IN
         IF /\ response.data.has
            /\ IsObject(response.data.val)
            /\ "_entities" \in DOMAIN response.data.val.v
            /\ IsArray(response.data.val.v["_entities"])
         THEN [value |-> InsertEntities(Null, response.data.val.v["_entities"].v, 1,
                                        inverted_paths, output_rewrites),
               errors |-> errors]
         ELSE [value |-> Null,
               errors |-> Append(errors, Error(<<"missing", "_entities">>, Some(current_dir),
                                               <<>>, EmptyMap))]
    ELSE [value |-> FromPath(current_dir,
                             ApplyRewrites(IF response.data.has THEN response.data.val
                                           ELSE Null, output_rewrites)),
          errors |-> [i \in 1..Len(response.errors) |->
                         PrefixError(response.errors[i], current_dir)]]

\* FetchNode::response_at_path
ResponseAtPath(requires, output_rewrites, current_dir, inverted_paths, response) ==
    IF requires # <<>>
    THEN LET errors == RemapErrors(response.errors, current_dir, inverted_paths) IN
         IF /\ response.data.has
            /\ IsObject(response.data.val)
            /\ "_entities" \in DOMAIN response.data.val.v
            /\ IsArray(response.data.val.v["_entities"])
         THEN [value |-> InsertEntities(Null, response.data.val.v["_entities"].v, 1,
                                        inverted_paths, output_rewrites),
               errors |-> errors]
         ELSE [value |-> Null, errors |-> errors]
    ELSE [value |-> FromPath(current_dir,
                             ApplyRewrites(IF response.data.has THEN response.data.val
                                           ELSE Null, output_rewrites)),
          errors |-> [i \in 1..Len(response.errors) |->
                         PrefixError(response.errors[i], current_dir)]]

(***************************************************************************)
(* Inputs: fetch nodes, response snapshots, current paths, downstream      *)
(* responses and failures.                                                 *)
(***************************************************************************)
Map1(k, v) == [x \in {k} |-> v]

Map2(k1, v1, k2, v2) == [x \in {k1, k2} |-> IF x = k1 THEN v1 ELSE v2]

GraphQL == [kind |-> "GraphQL"]

RestWrapper(connector_service_name, magic_finder_field) ==
    [kind |-> "RestWrapper", connector_service_name |-> connector_service_name,
     magic_finder_field |-> magic_finder_field]

RestFetch(connector_service_name, parent_service_name) ==
    [kind |-> "RestFetch", connector_service_name |-> connector_service_name,
     parent_service_name |-> parent_service_name]

Protocols ==
    {GraphQL, RestFetch("products.conn", "gateway"),
     RestWrapper("products.conn", None), RestWrapper("products.conn", Some("product"))}

InputRewrites == Some(<< [kind |-> "ValueSetter", key |-> "t", to |-> Str("T")] >>)

OutputRewrites == Some(<< [kind |-> "KeyRenamer", key |-> "name", to |-> "title"] >>)

FetchNode(requires, rewrites, protocol) ==
    [service_name |-> "products", requires |-> requires,
     variable_usages |-> <<"v", "w">>,
     input_rewrites |-> IF rewrites THEN InputRewrites ELSE None,
     output_rewrites |-> IF rewrites THEN OutputRewrites ELSE None,
     id |-> None,
     protocol |-> protocol]

FetchNodes ==
    {FetchNode(requires, rewrites, protocol) :
        requires \in {<<>>, <<"t", "id">>}, rewrites \in BOOLEAN, protocol \in Protocols}

\* the variables of the client request
BodyVariables == Map1("v", Str("1"))

EA1 == Obj(Map2("t", Str("A"), "id", Str("1")))

EB1 == Obj(Map2("t", Str("B"), "id", Str("1")))

EA2 == Obj(Map2("t", Str("A"), "id", Str("2")))

\* an object without any of the required fields
EN == Obj(Map1("name", Str("n")))

SeqsUpTo(S, n) == UNION {[1..m -> S] : m \in 0..n}

\* every response snapshot the Builder is explored on
Snapshots ==
    {Obj(Map1("list", Arr(l))) : l \in SeqsUpTo({EA1, EB1, EA2, EN, Null}, MaxList)}
    \cup {Obj(Map1("a", e)) : e \in {EA1, EN, Null}}
    \cup {EmptyObject, Obj(Map1("list", Null))}

\* the response snapshots of the end-to-end executions
FetchSnapshots ==
    {Obj(Map1("list", Arr(l))) :
        l \in {<<>>, <<EA1>>, <<EA1, EA1>>, <<EA1, EA2, EA1>>, <<EA2, EN, EB1>>}}
    \cup {Obj(Map1("a", e)) : e \in {EA1, Null}}

CurrentDirs == {<<>>, <<Key("a")>>, <<Key("list"), Flatten>>, <<Key("list"), Index(1)>>}

Locations == << [line |-> 1, column |-> 2] >>

DownstreamError(message, path) ==
    Error(<<message>>, path, Locations, [code |-> "DOWNSTREAM"])

DownstreamErrors ==
    {DownstreamError("m1", None),
     DownstreamError("m1", Some(<<Key("_entities"), Index(0), Key("x")>>)),
     DownstreamError("m2", Some(<<Key("_entities"), Index(1)>>)),
     DownstreamError("m1", Some(<<Key("_entities"), Index(MaxEntities), Key("x")>>)),
     DownstreamError("m1", Some(<<Key("_entities"), Key("k")>>)),
     DownstreamError("m1", Some(<<Key("other"), Key("y")>>))}

EX == Obj(Map1("name", Str("X")))

EY == Obj(Map1("name", Str("Y")))

EntityArrays == {Arr(a) : a \in SeqsUpTo({EX, EY}, MaxEntities)}

\* the top-level objects a downstream service answers with, the entity
\* list under key
DataObjects(key) ==
    {Obj(Map1(key, a)) : a \in EntityArrays}
    \cup {Obj(Map2(key, Arr(<<EX, EY>>), "extra", Str("e"))),
          Obj(Map1(key, Str("not a list"))), Obj(Map1("name", Str("X"))), EmptyObject}

ResponseData == {None, Some(Null)} \cup {Some(d) : d \in DataObjects("_entities")}

\* error lists of every length with one answer, every answer with at most
\* one error
Responses ==
    {[data |-> Some(Obj(Map1("_entities", Arr(<<EX, EY>>)))), errors |-> e, path |-> None] :
        e \in SeqsUpTo(DownstreamErrors, MaxErrors)}
    \cup {[data |-> d, errors |-> e, path |-> None] :
            d \in ResponseData, e \in SeqsUpTo(DownstreamErrors, 1)}
    \cup {[data |-> Some(Obj(Map1("_entities", Arr(<<EX>>)))), errors |-> e,
           path |-> Some(<<Key("list")>>)] : e \in SeqsUpTo(DownstreamErrors, 1)}

Failures ==
    {[fetch_error |-> TRUE, kind |-> "SubrequestHttpError", status_code |-> Some(503),
      service |-> "upstream", reason |-> <<"unavailable">>],
     [fetch_error |-> TRUE, kind |-> "SubrequestHttpError", status_code |-> None,
      service |-> "products", reason |-> <<"reset">>],
     [fetch_error |-> TRUE, kind |-> "SubrequestMalformedResponse",
      service |-> "products", reason |-> <<"bad json">>],
     [fetch_error |-> FALSE, kind |-> "BoxError", reason |-> <<"timeout">>]}

\* what the nested connector plan returns: a value and its errors
NestedResults ==
    {[value |-> Obj(Map2("product", Arr(<<EX, EY>>), "_entities", Arr(<<EY>>))),
      errors |-> e] : e \in SeqsUpTo(DownstreamErrors, MaxErrors)}
    \cup {[value |-> v, errors |-> e] :
            v \in {Null} \cup DataObjects("product") \cup DataObjects("_entities"),
            e \in SeqsUpTo(DownstreamErrors, 1)}

(***************************************************************************)
(* State: one execution of a fetch.                                        *)
(***************************************************************************)
VARIABLES
    node,          \* the FetchNode
    data,          \* the response snapshot
    current_dir,   \* the current path
    pc,            \* "start", "await" (downstream call or nested plan), "done"
    vars,          \* what Variables::new returned
    sent,          \* the requests handed to the per-service callable
    reply,         \* what came back from the call or from the nested plan
    stitched,      \* the graphql::Response given to response_at_path
    result,        \* the (value, errors) pair the fetch returned
    deferred_fetches,  \* the listeners of the deferred chunks, by id
    published,         \* the send calls made on deferred listeners
    subgraph_planners, \* the services that have a sub-planner
    connectors,        \* the connectors, by service name
    planner_calls,     \* the operations handed to a sub-planner
    planner_reply,     \* what the sub-planner returned
    plan_result,       \* what generate_connector_plan returned
    operation,         \* the SubgraphOperation of the fetch: its two slots
    callers,           \* the threads reading the operation
    computed,          \* how often each form of the operation was computed
    replaced,          \* what SubgraphOperation::replace returned
    fold               \* the enumeration of Variables::new: positions visited,
                       \* values and path lists collected

exec_vars == <<node, data, current_dir, pc, vars, sent, reply, stitched, result>>

defer_vars == <<deferred_fetches, published>>

plan_vars == <<subgraph_planners, connectors, planner_calls, planner_reply, plan_result>>

op_vars == <<operation, callers, computed, replaced>>

enum_vars == <<fold>>

vars_all == <<exec_vars, defer_vars, plan_vars, op_vars, enum_vars>>

NoReply == [kind |-> "none"]

Fresh ==
    /\ pc = "start"
    /\ vars = None
    /\ sent = <<>>
    /\ reply = NoReply
    /\ stitched = None
    /\ result = None

\* SubgraphOperation::from_string
FromString(serialized) == [serialized |-> Some(serialized), parsed |-> None]

\* SubgraphOperation::from_parsed
FromParsed(parsed) == [serialized |-> None, parsed |-> Some(parsed)]

\* the text of the entity query of the fetch, as a list of words
EntitiesQuery == <<"{", "_entities", "{", "name", "}", "}">>

\* no deferred chunk is waiting
NoDeferred ==
    /\ deferred_fetches = EmptyMap
    /\ published = <<>>

\* no planning is going on
NoPlanning ==
    /\ subgraph_planners = {}
    /\ connectors = EmptyMap
    /\ planner_calls = <<>>
    /\ planner_reply = NoReply
    /\ plan_result = None

\* the operation came as text and nothing reads it
\* Variables::new before select_values_and_paths: nothing visited,
\* `values` and `inverted_paths` empty
NotEnumerating == fold = [n |-> 0, values |-> <<>>, inverted_paths |-> <<>>]

OperationAtRest ==
    /\ operation = FromString(EntitiesQuery)
    /\ callers = <<>>
    /\ computed = [serialized |-> 0, parsed |-> 0]
    /\ replaced = None

Init ==
    /\ node \in FetchNodes
    /\ data \in FetchSnapshots
    /\ current_dir \in CurrentDirs
    /\ Fresh
    /\ NoDeferred /\ NoPlanning /\ OperationAtRest /\ NotEnumerating

\* DeferredSend that publishes the value without the errors
DeferredSendValueOnly(message) ==
    IF node.id.has /\ node.id.val \in DOMAIN deferred_fetches
    THEN Append(published, [id |-> node.id.val,
                            message |-> [message EXCEPT !.errors = <<>>],
                            ok |-> deferred_fetches[node.id.val] = "open"])
    ELSE published

\* the end of fetch_node and of connector_execution: the stitched pair
\* sent to the listener registered under the id of the fetch, if any; the
\* send fails on a closed listener
DeferredSend(message) ==
    IF node.id.has /\ node.id.val \in DOMAIN deferred_fetches
    THEN Append(published, [id |-> node.id.val, message |-> message,
                            ok |-> deferred_fetches[node.id.val] = "open"])
    ELSE published

\* whether the plan executor runs this node through connector_execution
IsConnector == node.protocol.kind = "RestWrapper"

BuildVariables ==
    VariablesNew(node.requires, node.variable_usages, data, current_dir,
                 BodyVariables, node.input_rewrites)

\* fetch_node: the service the address and the callable are resolved with
ServiceName ==
    IF node.protocol.kind = "RestFetch" THEN node.protocol.parent_service_name
    ELSE node.service_name

\* fetch_node: the subgraph name the request carries
SubgraphServiceName ==
    IF node.protocol.kind = "RestFetch" THEN node.protocol.connector_service_name
    ELSE node.service_name

\* FetchNode::service_name: the service whose schema the operation is
\* parsed and hashed against
EffectiveServiceName ==
    CASE node.protocol.kind = "GraphQL" -> node.service_name
      [] node.protocol.kind = "RestWrapper" -> node.protocol.connector_service_name
      [] node.protocol.kind = "RestFetch" -> node.protocol.connector_service_name

\* FetchNodeCalled that publishes the empty pair when the Builder
\* returned nothing
FetchNodeCalledPublishes ==
    /\ pc = "start"
    /\ vars' = BuildVariables
    /\ IF vars'.has
       THEN /\ sent' = Append(sent, [service |-> ServiceName,
                                     subgraph_name |-> SubgraphServiceName,
                                     variables |-> vars'.val.variables])
            /\ pc' = "await"
            /\ result' = result
            /\ published' = published
       ELSE /\ result' = Some([value |-> EmptyObject, errors |-> <<>>])
            /\ pc' = "done"
            /\ sent' = sent
            /\ published' = DeferredSend(result'.val)
    /\ UNCHANGED <<node, data, current_dir, reply, stitched>>
    /\ UNCHANGED <<deferred_fetches, plan_vars, op_vars, enum_vars>>

\* fetch_node, whatever the protocol of the node, up to the await of the
\* downstream call
FetchNodeCalled ==
    /\ pc = "start"
    /\ vars' = BuildVariables
    /\ IF vars'.has
       THEN /\ sent' = Append(sent, [service |-> ServiceName,
                                     subgraph_name |-> SubgraphServiceName,
                                     variables |-> vars'.val.variables])
            /\ pc' = "await"
            /\ result' = result
       ELSE /\ result' = Some([value |-> EmptyObject, errors |-> <<>>])
            /\ pc' = "done"
            /\ sent' = sent
    /\ UNCHANGED <<node, data, current_dir, reply, stitched>>
    /\ UNCHANGED <<defer_vars, plan_vars, op_vars, enum_vars>>

\* fetch_node of a node the plan executor runs through fetch_node
FetchNodeStart == ~IsConnector /\ FetchNodeCalled

\* FetchNodeFailed that invokes the callable once more before giving up
FetchNodeFailedRetry(failure) ==
    /\ pc = "await"
    /\ ~IsConnector
    /\ reply' = [kind |-> "failure", failure |-> failure]
    /\ sent' = Append(sent, sent[Len(sent)])
    /\ result' = Some([value |-> Null,
                       errors |-> << ToGraphqlError(NormalizeFailure(failure, ServiceName),
                                                    Some(current_dir)) >>])
    /\ pc' = "done"
    /\ UNCHANGED <<node, data, current_dir, vars, stitched>>
    /\ UNCHANGED <<defer_vars, plan_vars, op_vars, enum_vars>>

\* fetch_node: the downstream call failed
FetchNodeFailed(failure) ==
    /\ pc = "await"
    /\ ~IsConnector
    /\ reply' = [kind |-> "failure", failure |-> failure]
    /\ result' = Some([value |-> Null,
                       errors |-> << ToGraphqlError(NormalizeFailure(failure, ServiceName),
                                                    Some(current_dir)) >>])
    /\ pc' = "done"
    /\ UNCHANGED <<node, data, current_dir, vars, sent, stitched>>
    /\ UNCHANGED <<defer_vars, plan_vars, op_vars, enum_vars>>

\* FetchNodeResponded that stitches a non-primary response as well
FetchNodeRespondedAnyResponse(response) ==
    /\ pc = "await"
    /\ ~IsConnector
    /\ reply' = [kind |-> "response", response |-> response]
    /\ stitched' = Some(response)
    /\ result' = Some(ResponseAtPath(node.requires, node.output_rewrites,
                                     current_dir, vars.val.inverted_paths, response))
    /\ published' = DeferredSend(result'.val)
    /\ pc' = "done"
    /\ UNCHANGED <<node, data, current_dir, vars, sent>>
    /\ UNCHANGED <<deferred_fetches, plan_vars, op_vars, enum_vars>>

\* FetchNodeResponded that returns the failure of the send as an error
FetchNodeRespondedSendError(response) ==
    /\ pc = "await"
    /\ ~IsConnector
    /\ reply' = [kind |-> "response", response |-> response]
    /\ stitched' = Some(response)
    /\ LET pair == ResponseAtPath(node.requires, node.output_rewrites, current_dir,
                                  vars.val.inverted_paths, response)
       IN  /\ published' = DeferredSend(pair)
           /\ result' = IF published' # published /\ ~published'[Len(published')].ok
                        THEN Some([pair EXCEPT !.errors =
                                      Append(@, Error(<<"channel closed">>, Some(current_dir),
                                                      <<>>, [code |-> "SEND"]))])
                        ELSE Some(pair)
    /\ pc' = "done"
    /\ UNCHANGED <<node, data, current_dir, vars, sent>>
    /\ UNCHANGED <<deferred_fetches, plan_vars, op_vars, enum_vars>>

\* fetch_node: the downstream call returned a response
FetchNodeResponded(response) ==
    /\ pc = "await"
    /\ ~IsConnector
    /\ reply' = [kind |-> "response", response |-> response]
    /\ IF ~IsPrimary(response)
       THEN /\ result' = Some([value |-> Null,
                               errors |-> << ToGraphqlError(
                                                SubrequestUnexpectedPatchResponse(ServiceName),
                                                Some(current_dir)) >>])
            /\ stitched' = stitched
            /\ published' = published
       ELSE /\ stitched' = Some(response)
            /\ result' = Some(ResponseAtPath(node.requires, node.output_rewrites,
                                             current_dir, vars.val.inverted_paths,
                                             response))
            /\ published' = DeferredSend(result'.val)
    /\ pc' = "done"
    /\ UNCHANGED <<node, data, current_dir, vars, sent>>
    /\ UNCHANGED <<deferred_fetches, plan_vars, op_vars, enum_vars>>

\* connector_execution: the finder field of a RestWrapper fetch
MagicFinder ==
    IF node.protocol.kind = "RestWrapper" THEN node.protocol.magic_finder_field
    ELSE None

\* RenameFinder that copies the value and leaves the finder key in place
RenameFinderKeep(value, magic_finder) ==
    IF magic_finder.has /\ IsObject(value) /\ magic_finder.val \in DOMAIN value.v
    THEN Obj(MapInsert(value.v, "_entities", value.v[magic_finder.val]))
    ELSE value

\* connector_execution: the finder field's value moved under `_entities`
RenameFinder(value, magic_finder) ==
    IF magic_finder.has /\ IsObject(value) /\ magic_finder.val \in DOMAIN value.v
    THEN Obj(MapInsert(MapRemove(value.v, magic_finder.val), "_entities",
                       value.v[magic_finder.val]))
    ELSE value

\* connector_execution up to the await of the nested plan
ConnectorStart ==
    /\ pc = "start"
    /\ IsConnector
    /\ vars' = BuildVariables
    /\ IF vars'.has
       THEN /\ pc' = "await"
            /\ result' = result
       ELSE /\ result' = Some([value |-> EmptyObject, errors |-> <<>>])
            /\ pc' = "done"
    /\ UNCHANGED <<node, data, current_dir, sent, reply, stitched>>
    /\ UNCHANGED <<defer_vars, plan_vars, op_vars, enum_vars>>

\* connector_execution: the nested plan returned
ConnectorFinished(nested) ==
    /\ pc = "await"
    /\ IsConnector
    /\ reply' = [kind |-> "nested", nested |-> nested]
    /\ LET response == [data |-> Some(RenameFinder(nested.value, MagicFinder)),
                        errors |-> nested.errors, path |-> None]
       IN  /\ stitched' = Some(response)
           /\ result' = Some(ResponseAtPath(node.requires, node.output_rewrites,
                                            current_dir, vars.val.inverted_paths,
                                            response))
    /\ published' = DeferredSend(result'.val)
    /\ pc' = "done"
    /\ UNCHANGED <<node, data, current_dir, vars, sent>>
    /\ UNCHANGED <<deferred_fetches, plan_vars, op_vars, enum_vars>>

Next ==
    \/ FetchNodeStart
    \/ \E failure \in Failures : FetchNodeFailed(failure)
    \/ \E response \in Responses : FetchNodeResponded(response)
    \/ ConnectorStart
    \/ \E nested \in NestedResults : ConnectorFinished(nested)

Spec == Init /\ [][Next]_vars_all

(***************************************************************************)
(* The Builder alone, on every snapshot: the executions stop at the await. *)
(***************************************************************************)
InitVars ==
    /\ node \in FetchNodes
    /\ data \in Snapshots
    /\ current_dir \in CurrentDirs
    /\ Fresh
    /\ NoDeferred /\ NoPlanning /\ OperationAtRest /\ NotEnumerating

NextVars == FetchNodeStart \/ ConnectorStart

SpecVars == InitVars /\ [][NextVars]_vars_all

(***************************************************************************)
(* Notions the properties are stated with.                                 *)
(***************************************************************************)
\* the positions of the snapshot matched by the current path
Matched == SelectValuesAndPaths(data, current_dir)

\* the `requires` selection at a matched position
Selected(match) == ExecuteSelectionSet(match[2], node.requires)

\* a matched position whose selection is a non-empty object
Contributes(match) == IsObject(Selected(match)) /\ DOMAIN Selected(match).v # {}

\* the representation value of a contributing position
Representation(match) == ApplyRewrites(Selected(match), node.input_rewrites)

\* the paths of the contributing positions whose representation is value,
\* in visiting order
PositionsOf(value) ==
    LET same == SelectSeq(Matched, LAMBDA m : Contributes(m) /\ Representation(m) = value)
    IN  [j \in 1..Len(same) |-> same[j][1]]

\* the first matched position (1-based) contributing value
FirstSeen(value) ==
    CHOOSE n \in 1..Len(Matched) :
        /\ Contributes(Matched[n]) /\ Representation(Matched[n]) = value
        /\ \A m \in 1..(n - 1) :
              ~(Contributes(Matched[m]) /\ Representation(Matched[m]) = value)

Built == pc # "start" /\ vars.has

EntityRegime == node.requires # <<>>

Representations == vars.val.variables["representations"].v

InvertedPaths == vars.val.inverted_paths

\* C1: Variables::new with non-empty `requires` sends every representation
\* value once, records for it the paths of all the positions that gave it,
\* in visiting order, and lists distinct values in first-seen order
C1_Deduplication ==
    (Built /\ EntityRegime) =>
        /\ Len(InvertedPaths) = Len(Representations)
        /\ \A n \in 1..Len(Matched) :
              Contributes(Matched[n]) =>
                 LET value == Representation(Matched[n])
                     at == {i \in 1..Len(Representations) : Representations[i] = value}
                 IN  /\ Cardinality(at) = 1
                     /\ \A i \in at : InvertedPaths[i] = PositionsOf(value)
        /\ \A i \in 1..Len(Representations) :
              /\ \E n \in 1..Len(Matched) :
                    Contributes(Matched[n]) /\ Representation(Matched[n]) = Representations[i]
              /\ \A j \in (i + 1)..Len(Representations) :
                    FirstSeen(Representations[i]) < FirstSeen(Representations[j])

\* C1 witness: three positions gave two values, one of them twice, and the
\* input rewrite made two different selections equal
C1_Witness ==
    /\ Built /\ EntityRegime
    /\ node.input_rewrites.has
    /\ data = Obj(Map1("list", Arr(<<EA1, EA2, EB1>>)))
    /\ Len(Representations) = 2
    /\ InvertedPaths = << <<<<Key("list"), Index(0)>>, <<Key("list"), Index(2)>>>>,
                          <<<<Key("list"), Index(1)>>>> >>

RECURSIVE ValueAt(_, _)
\* what a value tree holds at a path of keys and indexes, if anything
ValueAt(tree, path) ==
    IF path = <<>> THEN Some(tree)
    ELSE LET h == Head(path) IN
         IF h.e = "key" /\ IsObject(tree) /\ h.k \in DOMAIN tree.v
         THEN ValueAt(tree.v[h.k], Tail(path))
         ELSE IF h.e = "idx" /\ IsArray(tree) /\ h.i + 1 <= Len(tree.v)
              THEN ValueAt(tree.v[h.i + 1], Tail(path))
              ELSE None

\* the tree holds nothing, or only a null, at the path
NothingAt(tree, path) ==
    LET found == ValueAt(tree, path) IN found.has => IsNull(found.val)

PathElements ==
    {Key(k) : k \in {"list", "a", "name", "title"}} \cup {Index(i) : i \in 0..MaxList}

\* the paths of keys and indexes the trees are inspected at
ProbePaths == SeqsUpTo(PathElements, 2)

RecordedPaths ==
    UNION {{InvertedPaths[i][j] : j \in 1..Len(InvertedPaths[i])} :
              i \in 1..Len(InvertedPaths)}

Returned == pc = "done" /\ result.has

\* the fetch stitched a response in the entity regime
StitchedEntities == Returned /\ stitched.has /\ EntityRegime

\* the `_entities` array of the stitched response, if it has one
HasEntities ==
    /\ stitched.val.data.has
    /\ IsObject(stitched.val.data.val)
    /\ "_entities" \in DOMAIN stitched.val.data.val.v
    /\ IsArray(stitched.val.data.val.v["_entities"])

Entities == stitched.val.data.val.v["_entities"].v

\* C2: stitching an `_entities` array aligned with the path-list index puts
\* (the output-rewritten) entity i at every path recorded for i and
\* nothing at any other path; no error appears when the response has none
C2_ScatterRoundTrip ==
    (StitchedEntities /\ HasEntities /\ Len(Entities) = Len(InvertedPaths)) =>
        /\ \A i \in 1..Len(InvertedPaths) : \A j \in 1..Len(InvertedPaths[i]) :
              ValueAt(result.val.value, InvertedPaths[i][j])
                 = Some(ApplyRewrites(Entities[i], node.output_rewrites))
        /\ \A q \in ProbePaths :
              (\A p \in RecordedPaths : ~StartsWith(p, q) /\ ~StartsWith(q, p))
                 => NothingAt(result.val.value, q)
        /\ (stitched.val.errors = <<>> => result.val.errors = <<>>)

\* C2 witness: representations 1, 2, 1 at three paths and entities [X, Y]
C2_Witness ==
    /\ StitchedEntities /\ HasEntities
    /\ ~node.output_rewrites.has
    /\ Len(InvertedPaths) = 2 /\ Len(InvertedPaths[1]) = 2
    /\ Entities = <<EX, EY>>
    /\ result.val = [value |-> Obj(Map1("list", Arr(<<EX, EY, EX>>))), errors |-> <<>>]

\* a downstream error whose path is [`_entities`, i, ...rest]
EntityShaped(error) ==
    /\ error.path.has
    /\ Len(error.path.val) >= 2
    /\ error.path.val[1] = Key("_entities")
    /\ error.path.val[2].e = "idx"

\* the original paths recorded for the index an entity-shaped error names
RecordedFor(error) ==
    LET i == error.path.val[2].i IN
    IF i < Len(InvertedPaths) THEN InvertedPaths[i + 1] ELSE <<>>

\* what follows [`_entities`, i] in the path of an entity-shaped error
Remainder(error) == [n \in 1..(Len(error.path.val) - 2) |-> error.path.val[n + 2]]

\* the number of errors an entity-regime downstream error is turned into
FanOut(error) == IF EntityShaped(error) THEN Len(RecordedFor(error)) ELSE 1

RECURSIVE FanOutBefore(_, _)
\* the number of errors the downstream errors before the k-th are turned into
FanOutBefore(errors, k) ==
    IF k <= 1 THEN 0 ELSE FanOutBefore(errors, k - 1) + FanOut(errors[k - 1])

\* C3: in the entity regime a downstream error at [`_entities`, i, ...rest]
\* whose index has the recorded paths p1..pn becomes exactly n errors, the
\* j-th at pj + rest, with its message and extensions and without locations
C3_ErrorRemapping ==
    StitchedEntities =>
        LET errors == stitched.val.errors IN
        /\ Len(result.val.errors) = FanOutBefore(errors, Len(errors) + 1)
        /\ \A k \in 1..Len(errors) :
              EntityShaped(errors[k]) =>
                 \A j \in 1..Len(RecordedFor(errors[k])) :
                    result.val.errors[FanOutBefore(errors, k) + j]
                       = [message |-> errors[k].message,
                          path |-> Some(RecordedFor(errors[k])[j] \o Remainder(errors[k])),
                          locations |-> <<>>,
                          extensions |-> errors[k].extensions]

\* C3 witness: an error at [`_entities`, 0, x] whose index has two recorded
\* paths has become two errors, below each of the two paths
C3_Witness ==
    /\ StitchedEntities
    /\ Len(stitched.val.errors) = 1
    /\ stitched.val.errors[1].path = Some(<<Key("_entities"), Index(0), Key("x")>>)
    /\ stitched.val.errors[1].locations # <<>>
    /\ Len(result.val.errors) = 2
    /\ result.val.errors[1].path = Some(<<Key("list"), Index(0), Key("x")>>)
    /\ result.val.errors[2].path = Some(<<Key("list"), Index(2), Key("x")>>)
    /\ result.val.errors[2].locations = <<>>

\* C4: stitching never drops a downstream error: each error of the
\* stitched response gives rise to at least one returned error
C4_NoErrorDropped ==
    (Returned /\ stitched.has) =>
        /\ Len(result.val.errors) >= Len(stitched.val.errors)
        /\ \A k \in 1..Len(stitched.val.errors) :
              \E m \in 1..Len(result.val.errors) :
                 /\ result.val.errors[m].message = stitched.val.errors[k].message
                 /\ result.val.errors[m].extensions = stitched.val.errors[k].extensions

\* the snapshot holds null or nothing at the current path
NullOrMissing ==
    LET found == GetPath(data, current_dir) IN found.has => IsNull(found.val)

\* C5: with empty `requires`, a non-empty current path and null or nothing
\* at it in the snapshot, Variables::new returns nothing and fetch_node
\* sends no request and returns an empty object and no error
C5_NullGuard ==
    (pc # "start" /\ ~IsConnector /\ ~EntityRegime /\ current_dir # <<>> /\ NullOrMissing) =>
        /\ ~vars.has
        /\ sent = <<>>
        /\ pc = "done"
        /\ result = Some([value |-> EmptyObject, errors |-> <<>>])

\* C5 witness: a plain fetch below /a, where the snapshot holds null, is over
C5_Witness ==
    /\ pc = "done" /\ ~IsConnector /\ ~EntityRegime
    /\ current_dir = <<Key("a")>>
    /\ data = Obj(Map1("a", Null))
    /\ result.has /\ sent = <<>>

EndsInFlatten == current_dir # <<>> /\ current_dir[Len(current_dir)] = Flatten

\* the current path without its last element
Trimmed == [n \in 1..(Len(current_dir) - 1) |-> current_dir[n]]

FinderResult ==
    /\ Returned /\ IsConnector /\ EntityRegime
    /\ reply.kind = "nested"
    /\ MagicFinder.has
    /\ IsObject(reply.nested.value)
    /\ MagicFinder.val \in DOMAIN reply.nested.value.v

\* the nested result with the finder key named `_entities` instead
AlreadyEntities ==
    LET object == reply.nested.value.v
        finder == MagicFinder.val
    IN  Obj([k \in ((DOMAIN object) \ {finder}) \cup {"_entities"} |->
                IF k = "_entities" THEN object[finder] ELSE object[k]])

\* C7: renaming the finder field and stitching gives what stitching gives on
\* the same result with the key already named `_entities`; the rename
\* leaves the other top-level keys and the errors as they were
C7_FinderRename ==
    FinderResult =>
        /\ stitched.val.data = Some(AlreadyEntities)
        /\ \A k \in (DOMAIN reply.nested.value.v) \ {MagicFinder.val, "_entities"} :
              /\ k \in DOMAIN stitched.val.data.val.v
              /\ stitched.val.data.val.v[k] = reply.nested.value.v[k]
        /\ stitched.val.errors = reply.nested.errors
        /\ result.val = ResponseAtPath(node.requires, node.output_rewrites, current_dir,
                                       InvertedPaths,
                                       [data |-> Some(AlreadyEntities),
                                        errors |-> reply.nested.errors, path |-> None])

\* C7 witness: the result {product: [X, Y], extra: e} of a fetch with finder
\* field product was stitched to the three recorded paths
C7_Witness ==
    /\ FinderResult
    /\ reply.nested.value = Obj(Map2("product", Arr(<<EX, EY>>), "extra", Str("e")))
    /\ stitched.val.data = Some(Obj(Map2("_entities", Arr(<<EX, EY>>), "extra", Str("e"))))
    /\ result.val.value = Obj(Map1("list", Arr(<<EX, EY, EX>>)))

\* C8: fetch_node invokes the per-service callable exactly once when
\* Variables::new returned a payload, also when the call failed, and never
\* when it returned nothing
C8_ExactlyOnceDispatch ==
    ~IsConnector =>
        /\ pc = "start" => sent = <<>>
        /\ pc # "start" => Len(sent) = (IF vars.has THEN 1 ELSE 0)

\* C8 witness: the call failed and fetch_node returned after one invocation
C8_Witness ==
    /\ Returned /\ ~IsConnector
    /\ reply.kind = "failure"
    /\ Len(sent) = 1

\* the service fetch_node resolves the address and the callable with
DispatchService ==
    IF node.protocol.kind = "RestFetch" THEN "gateway" ELSE "products"

\* C9: a failed call that is a SubrequestHttpError is passed through, any
\* other failure is wrapped as a SubrequestHttpError without status code,
\* with the service name and the failure's text; fetch_node returns null and
\* exactly one error, at the current path
C9_FailureNormalisation ==
    (Returned /\ reply.kind = "failure") =>
        LET failure == reply.failure IN
        /\ result.val.value = Null
        /\ Len(result.val.errors) = 1
        /\ result.val.errors[1].path = Some(current_dir)
        /\ result.val.errors[1].extensions.error
              = IF failure.fetch_error /\ failure.kind = "SubrequestHttpError"
                THEN [kind |-> "SubrequestHttpError", status_code |-> failure.status_code,
                      service |-> failure.service, reason |-> failure.reason]
                ELSE [kind |-> "SubrequestHttpError", status_code |-> None,
                      service |-> DispatchService, reason |-> ToText(failure)]

\* C9 witness: a malformed-response failure came back wrapped, the text of
\* the failure as its reason
C9_Witness ==
    /\ Returned /\ reply.kind = "failure"
    /\ reply.failure.kind = "SubrequestMalformedResponse"
    /\ current_dir = <<Key("list"), Flatten>>
    /\ result.val.errors[1].extensions.error.status_code = None
    /\ result.val.errors[1].extensions.error.reason
          = <<"service", "products", "response was malformed:", "bad json">>

\* C10: a non-primary response is rejected: fetch_node returns null and one
\* SubrequestUnexpectedPatchResponse error at the current path, and stitches
\* nothing of the response
C10_PatchResponseRejected ==
    (Returned /\ reply.kind = "response" /\ reply.response.path.has) =>
        /\ ~stitched.has
        /\ result.val.value = Null
        /\ Len(result.val.errors) = 1
        /\ result.val.errors[1].path = Some(current_dir)
        /\ result.val.errors[1].extensions.code = "SubrequestUnexpectedPatchResponse"
        /\ result.val.errors[1].extensions.error.service = DispatchService

\* C10 witness: a patch response carrying an entity and an error was
\* answered with the single error
C10_Witness ==
    /\ Returned /\ reply.kind = "response" /\ reply.response.path.has
    /\ reply.response.errors # <<>>
    /\ EntityRegime
    /\ Len(result.val.errors) = 1

(***************************************************************************)
(* Fetches of a deferred chunk: the id of the fetch and the listeners.     *)
(***************************************************************************)
DeferredNodes == {[n EXCEPT !.id = i] : n \in FetchNodes, i \in {None, Some("d1")}}

\* no listener, an open or a closed listener under d1, a listener under
\* another id
DeferredFetches ==
    {EmptyMap, [i \in {"d1"} |-> "open"], [i \in {"d1"} |-> "closed"],
     [i \in {"d2"} |-> "open"]}

DeferredSnapshots == {Obj(Map1("list", Arr(<<EA1, EA2, EA1>>))), Obj(Map1("a", Null))}

InitDeferred ==
    /\ node \in DeferredNodes
    /\ data \in DeferredSnapshots
    /\ current_dir \in {<<Key("a")>>, <<Key("list"), Flatten>>}
    /\ Fresh
    /\ deferred_fetches \in DeferredFetches
    /\ published = <<>>
    /\ NoPlanning /\ OperationAtRest /\ NotEnumerating

SpecDeferred == InitDeferred /\ [][Next]_vars_all

\* a listener is registered under the id of the fetch
Listening == node.id.has /\ node.id.val \in DOMAIN deferred_fetches

\* the fetch reached response_at_path and returned
ReachedStitching == Returned /\ stitched.has

\* C11: a fetch that reached stitching and has an id with a listener
\* registered under it has published exactly one message to that listener
\* when it returns, the pair it returns, and nothing before; a fetch without
\* id or without listener publishes nothing
C11_DeferredSignal ==
    /\ pc # "done" => published = <<>>
    /\ (ReachedStitching /\ Listening) =>
          /\ Len(published) = 1
          /\ published[1].id = node.id.val
          /\ published[1].message = result.val
    /\ (ReachedStitching /\ ~Listening) => published = <<>>

\* C11 witness: an entity fetch with id d1 and an open listener published
\* its stitched value and error
C11_Witness ==
    /\ ReachedStitching /\ Listening /\ EntityRegime
    /\ Len(published) = 1 /\ published[1].ok
    /\ published[1].message.value = Obj(Map1("list", Arr(<<EX, EY, EX>>)))
    /\ published[1].message.errors # <<>>

\* C12: a failed publish is not propagated: the fetch returns the stitched
\* pair, as it does without listener, and no further error
C12_PublishFailureIgnored ==
    (ReachedStitching /\ Listening /\ deferred_fetches[node.id.val] = "closed") =>
        /\ Len(published) = 1 /\ ~published[1].ok
        /\ result.val = ResponseAtPath(node.requires, node.output_rewrites, current_dir,
                                       InvertedPaths, stitched.val)

\* C12 witness: the listener under d1 was closed, the send failed and the
\* fetch returned its value and its one relocated error
C12_Witness ==
    /\ ReachedStitching /\ Listening /\ ~IsConnector
    /\ ~published[1].ok
    /\ Len(stitched.val.errors) = 1
    /\ Len(result.val.errors) = 1
    /\ result.val.value # Null

(***************************************************************************)
(* The dispatch of fetch_node on a node of any protocol.                   *)
(***************************************************************************)
NextDispatch == FetchNodeCalled

SpecDispatch == Init /\ [][NextDispatch]_vars_all

\* C13: the request of a GraphQL fetch carries the declared service name,
\* the request of a RestWrapper or RestFetch fetch the connector service
\* name of the protocol, and a RestFetch fetch resolves the address and the
\* callable with the parent service name
C13_ServiceSelection ==
    (pc # "start" /\ vars.has) =>
        /\ Len(sent) = 1
        /\ node.protocol.kind = "GraphQL" =>
              /\ sent[1].subgraph_name = node.service_name
              /\ sent[1].service = node.service_name
        /\ node.protocol.kind \in {"RestWrapper", "RestFetch"} =>
              sent[1].subgraph_name = node.protocol.connector_service_name
        /\ node.protocol.kind = "RestFetch" =>
              sent[1].service = node.protocol.parent_service_name

(***************************************************************************)
(* SubgraphOperation: the two write-once slots, read by several threads.   *)
(***************************************************************************)
\* most threads reading one operation
MaxCallers == 2
\* most calls one thread makes
MaxCalls == 2

\* ExecutableDocument as Display: the text of a document
Serialize(document) == <<"{", document.root, "{">> \o document.selection \o <<"}", "}">>

\* ExecutableDocument::parse_and_validate: the document of a valid text
Parse(text) == [root |-> text[2], selection |-> SubSeq(text, 4, Len(text) - 2)]

\* str::replace, on the words of a text
ReplaceAll(text, from, to) ==
    [i \in 1..Len(text) |-> IF text[i] = from THEN to ELSE text[i]]

\* SubgraphOperation::replace
Replace(op, from, to) ==
    FromString(IF op.serialized.has THEN ReplaceAll(op.serialized.val, from, to)
               ELSE <<>>)

\* the closure of get_or_init in as_serialized and in as_parsed: the
\* missing form computed from the other one
ComputeForm(op, form) ==
    IF form = "serialized" THEN Serialize(op.parsed.val) ELSE Parse(op.serialized.val)

Threads == 1..MaxCallers

Forms == {"serialized", "parsed"}

Idle == [pc |-> "idle", form |-> "none", seen |-> None, calls |-> 0]

ReviewsQuery == <<"{", "reviews", "{", "_entities", "body", "}", "}">>

InitOperation ==
    /\ operation \in {FromString(EntitiesQuery), FromParsed(Parse(EntitiesQuery)),
                      FromString(ReviewsQuery), FromParsed(Parse(ReviewsQuery))}
    /\ callers = [t \in Threads |-> Idle]
    /\ computed = [serialized |-> 0, parsed |-> 0]
    /\ replaced = None
    /\ node = FetchNode(<<"t", "id">>, FALSE, GraphQL)
    /\ data = EmptyObject
    /\ current_dir = <<>>
    /\ Fresh
    /\ NoDeferred /\ NoPlanning /\ NotEnumerating

\* the threads running the closure of get_or_init for a form
Initializing(form) == {t \in Threads : callers[t].pc = "init" /\ callers[t].form = form}

\* OnceLock::get_or_init entered without waiting for a running closure
GetOrInitRacy(t, form) ==
    /\ callers[t].pc = "idle"
    /\ callers[t].calls < MaxCalls
    /\ callers' = [callers EXCEPT ![t] =
                      IF operation[form].has
                      THEN [pc |-> "idle", form |-> form, seen |-> operation[form],
                            calls |-> @.calls + 1]
                      ELSE [pc |-> "init", form |-> form, seen |-> None,
                            calls |-> @.calls + 1]]
    /\ UNCHANGED <<operation, computed, replaced, exec_vars, defer_vars, plan_vars, enum_vars>>

\* as_serialized / as_parsed: OnceLock::get_or_init entered: a set slot is
\* returned, an empty one is initialised by this thread; the call waits
\* while another thread runs the closure
GetOrInit(t, form) ==
    /\ callers[t].pc = "idle"
    /\ callers[t].calls < MaxCalls
    /\ operation[form].has \/ Initializing(form) = {}
    /\ callers' = [callers EXCEPT ![t] =
                      IF operation[form].has
                      THEN [pc |-> "idle", form |-> form, seen |-> operation[form],
                            calls |-> @.calls + 1]
                      ELSE [pc |-> "init", form |-> form, seen |-> None,
                            calls |-> @.calls + 1]]
    /\ UNCHANGED <<operation, computed, replaced, exec_vars, defer_vars, plan_vars, enum_vars>>

\* the closure ran: the slot is set and returned
Initialized(t) ==
    /\ callers[t].pc = "init"
    /\ LET form == callers[t].form
           value == ComputeForm(operation, form)
       IN  /\ operation' = [operation EXCEPT ![form] = Some(value)]
           /\ computed' = [computed EXCEPT ![form] = @ + 1]
           /\ callers' = [callers EXCEPT ![t].pc = "idle", ![t].seen = Some(value)]
    /\ UNCHANGED <<replaced, exec_vars, defer_vars, plan_vars, enum_vars>>

\* SubgraphOperation::replace called on the operation
Replaced ==
    /\ replaced = None
    /\ replaced' = Some(Replace(operation, "_entities", "product"))
    /\ UNCHANGED <<operation, callers, computed, exec_vars, defer_vars, plan_vars, enum_vars>>

NextOperation ==
    \/ \E t \in Threads, form \in Forms : GetOrInit(t, form)
    \/ \E t \in Threads : Initialized(t)
    \/ Replaced

SpecOperation == InitOperation /\ [][NextOperation]_vars_all

\* the text of the operation, from whichever form it has
PrintableText ==
    IF operation.serialized.has THEN operation.serialized.val
    ELSE Serialize(operation.parsed.val)

\* C15: replace returns a fresh operation whose text is the text of the
\* original with every occurrence of `from` replaced by `to` and whose
\* structured form is not computed, whichever form the original has
C15_ReplaceOnText ==
    replaced.has =>
        /\ replaced.val.serialized = Some(ReplaceAll(PrintableText, "_entities", "product"))
        /\ ~replaced.val.parsed.has

\* the form the operation was built from
BuiltFrom(form) == operation[form].has /\ computed[form] = 0

\* C16: under any interleaving of as_serialized and as_parsed calls the
\* missing form is computed at most once, a form the operation was built
\* from is never computed, and every value a caller got is the value the
\* slot holds
C16_SingleInitialisation ==
    /\ \A form \in Forms :
          /\ computed[form] <= 1
          /\ BuiltFrom(form) \/ computed[form] = 1 \/ ~operation[form].has
    /\ computed.serialized + computed.parsed <= 1
    /\ \A t \in Threads :
          callers[t].seen.has =>
             /\ callers[t].seen = operation[callers[t].form]
             /\ callers[t].seen.val = IF callers[t].form = "serialized"
                                      THEN PrintableText
                                      ELSE Parse(PrintableText)

\* C16 witness: both threads asked for the missing document, it was
\* computed once and both hold it
C16_Witness ==
    /\ operation.serialized = Some(ReviewsQuery)
    /\ computed = [serialized |-> 0, parsed |-> 1]
    /\ \A t \in Threads :
          callers[t].form = "parsed" /\ callers[t].seen = Some(Parse(ReviewsQuery))

C18_ErrorsOutsideEntityShape ==
    StitchedEntities =>
        LET errors == stitched.val.errors IN
        /\ Len(result.val.errors) = FanOutBefore(errors, Len(errors) + 1)
        /\ \A k \in 1..Len(errors) :
              ~EntityShaped(errors[k]) =>
                 /\ FanOutBefore(errors, k + 1) = FanOutBefore(errors, k) + 1
                 /\ LET out == result.val.errors[FanOutBefore(errors, k) + 1] IN
                    /\ out.message = errors[k].message
                    /\ out.extensions = errors[k].extensions
                    /\ out.path = IF errors[k].path.has THEN Some(current_dir) ELSE None

\* C18 witness: an error at a path outside `_entities` and an error
\* without a path were returned at current_dir and without a path
C18_Witness ==
    /\ StitchedEntities
    /\ current_dir # <<>>
    /\ \E k \in 1..Len(stitched.val.errors) :
          /\ stitched.val.errors[k].path.has
          /\ ~EntityShaped(stitched.val.errors[k])
          /\ stitched.val.errors[k].path.val # current_dir
          /\ result.val.errors[FanOutBefore(stitched.val.errors, k) + 1].path
                = Some(current_dir)
    /\ \E k \in 1..Len(stitched.val.errors) :
          /\ ~stitched.val.errors[k].path.has
          /\ ~result.val.errors[FanOutBefore(stitched.val.errors, k) + 1].path.has

\* a matched position whose `requires` selection is the empty object
SelectsNothing(match) == IsObject(Selected(match)) /\ DOMAIN Selected(match).v = {}

\* C19: with non-empty `requires` a matched position whose selection is
\* empty gives no representation and no recorded path; when no position
\* contributes, Variables::new returns nothing, no request is sent and the
\* fetch returns the empty object without errors
C19_EmptySelectionSkipped ==
    (pc # "start" /\ EntityRegime) =>
        /\ vars.has =>
              /\ \A n \in 1..Len(Matched) :
                    ~Contributes(Matched[n]) => Matched[n][1] \notin RecordedPaths
              /\ Len(Representations)
                    = Cardinality({Representation(Matched[n]) :
                                      n \in {m \in 1..Len(Matched) : Contributes(Matched[m])}})
              /\ \A i \in 1..Len(Representations) : Representations[i] # EmptyObject
        /\ (\A n \in 1..Len(Matched) : ~Contributes(Matched[n])) =>
              /\ ~vars.has
              /\ sent = <<>>
              /\ pc = "done"
              /\ result = Some([value |-> EmptyObject, errors |-> <<>>])

\* C19 witness: the current path matched positions, each with an empty
\* selection, and the fetch returned the empty object without a request
C19_Witness ==
    /\ EntityRegime
    /\ Len(Matched) >= 2
    /\ \A n \in 1..Len(Matched) : SelectsNothing(Matched[n])
    /\ ~vars.has /\ sent = <<>> /\ pc = "done"
    /\ result = Some([value |-> EmptyObject, errors |-> <<>>])

(***************************************************************************)
(* FetchNode::generate_connector_plan and update_connector_plan: the       *)
(* secondary planning call of a fetch.                                     *)
(***************************************************************************)
\* a Connector, by what this core reads of it
Connector(display_name, origin_subgraph) ==
    [display_name |-> display_name, origin_subgraph |-> origin_subgraph]

ConnectorMaps ==
    {EmptyMap,
     Map1("products.conn", Connector("products.api", "products")),
     Map2("products.conn", Connector("products.api", "products"),
          "reviews.conn", Connector("reviews.api", "products"))}

PlannerSets == {{}, {"products"}, {"products", "reviews"}}

PlanNodes ==
    {[FetchNode(requires, rewrites, GraphQL) EXCEPT !.service_name = service_name] :
        requires \in {<<>>, <<"t", "id">>}, rewrites \in BOOLEAN,
        service_name \in {"products", "reviews"}}

\* a fetch node of a plan the sub-planner returns
NestedFetch(service_name) ==
    [FetchNode(<<>>, FALSE, GraphQL) EXCEPT !.service_name = service_name]

\* the fetch nodes of the plans the sub-planner returns; none for a plan
\* without a root node
NestedPlans ==
    {<<>>, <<NestedFetch("products.conn")>>, <<NestedFetch("inventory.conn")>>,
     <<NestedFetch("products.conn"), NestedFetch("reviews.conn")>>}

PlannerReplies ==
    {[kind |-> "bridge_error"], [kind |-> "plan_errors"]}
       \cup {[kind |-> "success", nodes |-> nodes] : nodes \in NestedPlans}

InitPlan ==
    /\ node \in PlanNodes
    /\ data = EmptyObject
    /\ current_dir = <<>>
    /\ pc = "plan"
    /\ vars = None /\ sent = <<>> /\ reply = NoReply /\ stitched = None /\ result = None
    /\ NoDeferred /\ NotEnumerating
    /\ subgraph_planners \in PlannerSets
    /\ connectors \in ConnectorMaps
    /\ planner_calls = <<>>
    /\ planner_reply = NoReply
    /\ plan_result = None
    /\ operation \in {FromString(EntitiesQuery), FromParsed(Parse(EntitiesQuery)),
                      [serialized |-> Some(EntitiesQuery),
                       parsed |-> Some(Parse(EntitiesQuery))]}
    /\ callers = <<>>
    /\ computed = [serialized |-> 0, parsed |-> 0]
    /\ replaced = None

\* SubgraphOperation as Display: as_serialized, the text slot set from the
\* document when it was empty
AsSerialized(op) ==
    IF op.serialized.has THEN op
    ELSE [op EXCEPT !.serialized = Some(Serialize(op.parsed.val))]

\* the keys of the connectors whose origin subgraph is the declared service
ConnectorsInSubgraph ==
    {k \in DOMAIN connectors : connectors[k].origin_subgraph = node.service_name}

\* finder_field_for_fetch_node: no wrapper, or a wrapper naming one of the
\* connectors of the subgraph, with or without a finder field
FinderFieldForFetchNode ==
    {None} \cup {Some(RestWrapper(k, finder)) :
                    k \in ConnectorsInSubgraph, finder \in {None, Some("product")}}

Ok(value) == [kind |-> "Ok", value |-> value]

Err(error) == [kind |-> "Err", error |-> error]

\* update_connector_plan with the two names of the RestFetch exchanged
UpdateConnectorPlanSwapped(fetch, parent_service_name, known) ==
    [fetch EXCEPT !.service_name = known[fetch.service_name].display_name,
                  !.protocol = RestFetch(parent_service_name, fetch.service_name)]

\* FetchNode::update_connector_plan, the connector being registered
UpdateConnectorPlan(fetch, parent_service_name, known) ==
    [fetch EXCEPT !.service_name = known[fetch.service_name].display_name,
                  !.protocol = RestFetch(fetch.service_name, parent_service_name)]

\* PlanNode::update_connector_plan: the retargeting carried into the
\* fetch nodes of the nested plan
UpdatePlanNodes(nodes, parent_service_name, known) ==
    [i \in 1..Len(nodes) |-> UpdateConnectorPlan(nodes[i], parent_service_name, known)]

\* generate_connector_plan up to the await of the sub-planner, or to its
\* return when no sub-planner is registered under the declared service
GenerateConnectorPlan ==
    /\ pc = "plan"
    /\ IF node.service_name \in subgraph_planners
       THEN \E debug \in BOOLEAN, found \in FinderFieldForFetchNode :
               /\ operation' = IF debug THEN AsSerialized(operation) ELSE operation
               /\ LET wrapper == IF found.has THEN found.val
                                 ELSE RestWrapper(node.service_name, None)
                      planned == IF found.has /\ found.val.magic_finder_field.has
                                 THEN Replace(operation', "_entities",
                                              found.val.magic_finder_field.val)
                                 ELSE operation'
                  IN  planner_calls' =
                         Append(planner_calls,
                                [planner |-> node.service_name,
                                 operation |-> AsSerialized(planned).serialized.val,
                                 wrapper |-> wrapper])
               /\ pc' = "planning"
               /\ plan_result' = plan_result
       ELSE /\ plan_result' = Some(Ok(None))
            /\ pc' = "planned"
            /\ UNCHANGED <<operation, planner_calls>>
    /\ UNCHANGED <<node, data, current_dir, vars, sent, reply, stitched, result>>
    /\ UNCHANGED <<defer_vars, subgraph_planners, connectors, planner_reply>>
    /\ UNCHANGED <<callers, computed, replaced, enum_vars>>

\* PlannerReturned that takes a failed planning for a missing sub-planner
PlannerReturnedLenient(planned) ==
    /\ pc = "planning"
    /\ planner_reply' = planned
    /\ IF planned.kind = "success"
       THEN IF \E i \in 1..Len(planned.nodes) :
                  planned.nodes[i].service_name \notin DOMAIN connectors
            THEN pc' = "panicked" /\ plan_result' = plan_result
            ELSE /\ pc' = "planned"
                 /\ plan_result' =
                       Some(Ok(Some([plan |-> UpdatePlanNodes(planned.nodes,
                                                              node.service_name, connectors),
                                     wrapper |-> planner_calls[Len(planner_calls)].wrapper])))
       ELSE /\ pc' = "planned"
            /\ plan_result' = Some(Ok(None))
    /\ UNCHANGED <<node, data, current_dir, vars, sent, reply, stitched, result>>
    /\ UNCHANGED <<defer_vars, subgraph_planners, connectors, planner_calls, op_vars, enum_vars>>

\* generate_connector_plan resumed: the sub-planner returned
PlannerReturned(planned) ==
    /\ pc = "planning"
    /\ planner_reply' = planned
    /\ IF planned.kind = "success"
       THEN IF \E i \in 1..Len(planned.nodes) :
                  planned.nodes[i].service_name \notin DOMAIN connectors
            THEN pc' = "panicked" /\ plan_result' = plan_result
            ELSE /\ pc' = "planned"
                 /\ plan_result' =
                       Some(Ok(Some([plan |-> UpdatePlanNodes(planned.nodes,
                                                              node.service_name, connectors),
                                     wrapper |-> planner_calls[Len(planner_calls)].wrapper])))
       ELSE /\ pc' = "planned"
            /\ plan_result' =
                  Some(Err(IF planned.kind = "bridge_error" THEN "RouterBridgeError"
                           ELSE "PlanningErrors"))
    /\ UNCHANGED <<node, data, current_dir, vars, sent, reply, stitched, result>>
    /\ UNCHANGED <<defer_vars, subgraph_planners, connectors, planner_calls, op_vars, enum_vars>>

NextPlan ==
    \/ GenerateConnectorPlan
    \/ \E planned \in PlannerReplies : PlannerReturned(planned)

SpecPlan == InitPlan /\ [][NextPlan]_vars_all

\* the planning returned a plan
Planned == pc = "planned" /\ plan_result.val.kind = "Ok" /\ plan_result.val.value.has

\* C14: a fetch of the nested plan whose service name has a registered
\* connector is set to the connector's display name, with protocol RestFetch
\* naming the service it had before and the given parent; its other
\* fields are as the sub-planner returned them
C14_Retarget ==
    Planned =>
        LET before == planner_reply.nodes
            after == plan_result.val.value.val.plan
        IN  /\ Len(after) = Len(before)
            /\ \A i \in 1..Len(before) :
                  /\ after[i].service_name = connectors[before[i].service_name].display_name
                  /\ after[i].protocol
                        = [kind |-> "RestFetch",
                           connector_service_name |-> before[i].service_name,
                           parent_service_name |-> node.service_name]
                  /\ DOMAIN after[i] = DOMAIN before[i]
                  /\ \A f \in DOMAIN before[i] \ {"service_name", "protocol"} :
                        after[i][f] = before[i][f]

\* C14 witness: planning for "products", the nested fetch to
\* "reviews.conn" was retargeted to "reviews.api" with
\* RestFetch{reviews.conn, products}
C14_Witness ==
    /\ Planned
    /\ node.service_name = "products"
    /\ planner_reply.nodes = <<NestedFetch("products.conn"), NestedFetch("reviews.conn")>>
    /\ plan_result.val.value.val.plan[2].service_name = "reviews.api"
    /\ plan_result.val.value.val.plan[2].protocol = RestFetch("reviews.conn", "products")

\* C20: without a sub-planner under the declared service name the call
\* returns Ok(None) and no planner is invoked; when the sub-planner fails
\* the call returns a planning error and no plan
C20_PlanningOutcome ==
    /\ node.service_name \notin subgraph_planners =>
          /\ planner_calls = <<>>
          /\ pc # "plan" => pc = "planned" /\ plan_result = Some(Ok(None))
    /\ (pc # "plan" /\ planner_reply.kind \in {"bridge_error", "plan_errors"}) =>
          /\ pc = "planned"
          /\ plan_result.has
          /\ plan_result.val.kind = "Err"
          /\ plan_result.val.error \in {"RouterBridgeError", "PlanningErrors"}
          /\ Len(planner_calls) = 1

\* C20 witness: the sub-planner of "products" was called once, failed,
\* and the call returned the planning error
C20_Witness ==
    /\ pc = "planned"
    /\ node.service_name = "products"
    /\ Len(planner_calls) = 1 /\ planner_calls[1].planner = "products"
    /\ planner_reply.kind = "plan_errors"
    /\ plan_result = Some(Err("PlanningErrors"))

(***************************************************************************)
(* Variables::new with non-empty `requires`, one matched position at a     *)
(* time.                                                                   *)
(***************************************************************************)
InitEnumeration ==
    /\ node \in {n \in FetchNodes : n.requires # <<>>}
    /\ data \in Snapshots
    /\ current_dir \in CurrentDirs
    /\ Fresh
    /\ NoDeferred /\ NoPlanning /\ OperationAtRest /\ NotEnumerating

\* select_values_and_paths calls the closure on the next matched position
VisitNext ==
    /\ pc = "start"
    /\ fold.n < Len(Matched)
    /\ LET acc == VisitPosition([values |-> fold.values,
                                 inverted_paths |-> fold.inverted_paths],
                                Matched[fold.n + 1], node.requires, node.input_rewrites)
       IN  fold' = [n |-> fold.n + 1, values |-> acc.values,
                    inverted_paths |-> acc.inverted_paths]
    /\ UNCHANGED <<exec_vars, defer_vars, plan_vars, op_vars>>

\* the enumeration is over: Variables::new returns
EnumerationReturned ==
    /\ pc = "start"
    /\ fold.n = Len(Matched)
    /\ vars' = IF fold.values = <<>> THEN None
               ELSE Some([variables |->
                             MapInsert(AmbientVariables(node.variable_usages, BodyVariables),
                                       "representations", Arr(fold.values)),
                          inverted_paths |-> fold.inverted_paths])
    /\ pc' = "built"
    /\ UNCHANGED <<node, data, current_dir, sent, reply, stitched, result>>
    /\ UNCHANGED <<defer_vars, plan_vars, op_vars, enum_vars>>

NextEnumeration == VisitNext \/ EnumerationReturned

SpecEnumeration == InitEnumeration /\ [][NextEnumeration]_vars_all

\* the step-wise enumeration returns what Variables::new returns
EnumerationAgrees == pc = "built" => vars = BuildVariables

\* how often path occurs in the entries of index
Occurrences(index, path) ==
    Cardinality({ij \in {<<i, j>> : i \in 1..Len(index), j \in 1..MaxList + 1} :
                    ij[2] <= Len(index[ij[1]]) /\ index[ij[1]][ij[2]] = path})

\* the contributing positions among the first n matched
ContributingUpTo(n) == {m \in 1..n : Contributes(Matched[m])}

\* index has one entry per value of values, the values being those of the
\* first n matched positions without repetition; no entry is empty; the
\* path of every contributing position among the first n occurs once
IndexInvariant(values, index, n) ==
    /\ Len(index) = Len(values)
    /\ Len(values) = Cardinality({Representation(Matched[m]) : m \in ContributingUpTo(n)})
    /\ Cardinality({values[i] : i \in 1..Len(values)}) = Len(values)
    /\ \A i \in 1..Len(index) : index[i] # <<>>
    /\ \A m \in ContributingUpTo(n) : Occurrences(index, Matched[m][1]) = 1

\* C21: at every step of the enumeration of Variables::new and in what it
\* returns, the path-list index has as many entries as there are distinct
\* representations, no entry is empty, and every matched position with a
\* non-empty selection occurs in exactly one entry, exactly once
C21_IndexInvariant ==
    /\ IndexInvariant(fold.values, fold.inverted_paths, fold.n)
    /\ (pc = "built" /\ vars.has) =>
          IndexInvariant(Representations, InvertedPaths, Len(Matched))

\* C21 witness: half-way through three positions the second one repeated
\* the value of the first and was recorded in its entry
C21_Witness ==
    /\ pc = "start"
    /\ Len(Matched) = 3 /\ fold.n = 2
    /\ Len(fold.values) = 1
    /\ fold.inverted_paths = << <<Matched[1][1], Matched[2][1]>> >>

\* the fetch returned before response_at_path: the Builder returned
\* nothing, the downstream call failed, or the response was not primary
EndedEarly ==
    /\ pc = "done"
    /\ \/ ~vars.has
       \/ reply.kind = "failure"
       \/ reply.kind = "response" /\ ~IsPrimary(reply.response)

\* C22: a fetch that ends early publishes nothing to the deferred
\* listeners, whether or not a listener is registered under its id
C22_NoPublishWithoutStitching ==
    /\ EndedEarly => ~stitched.has /\ published = <<>>
    /\ ~stitched.has => published = <<>>

\* C22 witness: a fetch with id d1 and an open listener under d1 returned
\* the error of a failed downstream call and published nothing
C22_Witness ==
    /\ EndedEarly
    /\ reply.kind = "failure"
    /\ node.id = Some("d1")
    /\ "d1" \in DOMAIN deferred_fetches /\ deferred_fetches["d1"] = "open"
    /\ Len(result.val.errors) = 1
    /\ published = <<>>
====
